---------------------------- MODULE Spec2Model ----------------------------
(***************************************************************************)
(* A model of src/index.tsx: the chat front end that asks a generative     *)
(* model for source files, extracts them from the reply (extractFiles),    *)
(* merges them into the working set (handleSendMessage), pushes them to a  *)
(* GitHub repository (syncToGithub) and assembles a preview (previewDoc).  *)
(*                                                                         *)
(* Text is a sequence of tokens.  A token is one character (a letter, a    *)
(* blank, a newline, a backtick, ...) or one of a few fixed multi-character*)
(* units that the regular expressions of the source treat as a whole:      *)
(* the marker keyword "[FILE:", a file extension ".js", the tag heads      *)
(* "<body" and "</body".                                                   *)
(***************************************************************************)
EXTENDS Integers, Sequences, FiniteSets, TLC

VARIABLES
    activeTab,      \* useState 'chat' | 'preview'
    messages,       \* useState Message[] (the role/kind of each turn)
    inputText,      \* useState string
    isGenerating,   \* useState boolean
    projectFiles,   \* useState ProjectFile[]
    activeFileId,   \* useState string | null  (0 is null)
    showSettings,   \* useState boolean
    githubToken,    \* useState string
    repoName,       \* useState string
    isPushing,      \* useState boolean
    genCalls,       \* handleSendMessage calls suspended at await generateContent
    syncCalls,      \* syncToGithub calls suspended at an await
    syncPc,         \* where the syncToGithub call is: "idle" | "awaitGet" | "awaitGetJson" | "awaitPut" | "awaitPutJson"
    syncLen,        \* length of the projectFiles array the running sync closed over
    syncIdx,        \* position of the for..of loop in that array
    syncSha,        \* the loop body's local `sha` ("" is null)
    reqLog,         \* fetch() calls issued by the current / last syncToGithub call
    alerts,         \* alert() calls made by the current / last syncToGithub call
    nextId,         \* the next fresh ProjectFile id
    sends,          \* number of handleSendMessage calls that passed the guard
    syncs,          \* number of syncToGithub calls
    lastBatch,      \* handleSendMessage's local newFiles, of the last response
    doc,            \* extractFiles study: the structure the input text is rendered from
    text,           \* extractFiles study: the input text
    parsed,         \* extractFiles study: the result
    preview         \* previewDoc study: the memoised value

vars == <<activeTab, messages, inputText, isGenerating, projectFiles, activeFileId,
          showSettings, githubToken, repoName, isPushing, genCalls, syncCalls, syncPc, syncLen,
          syncIdx, syncSha, reqLog, alerts, nextId, sends, syncs, lastBatch,
          doc, text, parsed, preview>>

appVars == <<activeTab, messages, inputText, isGenerating, projectFiles, activeFileId,
             showSettings, githubToken, repoName, isPushing, genCalls, syncCalls, syncPc, syncLen,
             syncIdx, syncSha, reqLog, alerts, nextId, sends, syncs, lastBatch>>

-----------------------------------------------------------------------------
(* Bounds *)

MaxBlocks == 2

MaxSends == 2

MaxSyncs == 2

MaxFiles == 3

MaxHtmlLen == 7

-----------------------------------------------------------------------------
(* Character classes of the regular expressions *)

\* \s
IsSpace(c) == c \in {" ", "\n", "\r", "\t"}

\* [\n\r]
IsNL(c) == c \in {"\n", "\r"}

\* \w
IsWord(c) == c \in {"a", "A", "b", "i", "j", "s", "x", "y", "p", "q", "_", "0"}

\* [\w\.\/\-]  (an extension token is a dot followed by word characters)
IsPath(c) == IsWord(c) \/ c \in {".", "/", "-", ".js", ".JS", ".css", ".html", ".HTML"}

\* \[FILE:  under the i flag
IsKeyword(c) == c \in {"[FILE:", "[file:", "[File:"}

\* String.prototype.toLowerCase, token by token
LowerTok(c) ==
    CASE c = "A" -> "a"
      [] c = ".JS" -> ".js"
      [] c = ".HTML" -> ".html"
      [] c = "<BODY" -> "<body"
      [] c = "</BODY" -> "</body"
      [] OTHER -> c

ToLower(s) == [k \in 1..Len(s) |-> LowerTok(s[k])]

RECURSIVE TrimLeft(_)
TrimLeft(s) == IF s # <<>> /\ IsSpace(Head(s)) THEN TrimLeft(Tail(s)) ELSE s

RECURSIVE TrimRight(_)
TrimRight(s) ==
    IF s # <<>> /\ IsSpace(s[Len(s)]) THEN TrimRight(SubSeq(s, 1, Len(s) - 1)) ELSE s

\* String.prototype.trim
Trim(s) == TrimRight(TrimLeft(s))

-----------------------------------------------------------------------------
(* extractFiles: the regular expression                                    *)
(*   /\[FILE:\s*([\w\.\/\-]+)\]\s*[\n\r]*```(\w+)?\s*[\n\r]([\s\S]*?)```/gi  *)

RECURSIVE SkipSpace(_, _)
SkipSpace(t, i) == IF i <= Len(t) /\ IsSpace(t[i]) THEN SkipSpace(t, i + 1) ELSE i

RECURSIVE SkipPath(_, _)
SkipPath(t, i) == IF i <= Len(t) /\ IsPath(t[i]) THEN SkipPath(t, i + 1) ELSE i

RECURSIVE SkipWord(_, _)
SkipWord(t, i) == IF i <= Len(t) /\ IsWord(t[i]) THEN SkipWord(t, i + 1) ELSE i

\* the backtick character (a string of this language cannot hold one)
BT == "BACKTICK"

\* three backticks at i
FenceAt(t, i) == i + 2 <= Len(t) /\ t[i] = BT /\ t[i + 1] = BT /\ t[i + 2] = BT

\* the first fence at or after i, 0 when there is none: ([\s\S]*?) fence
RECURSIVE FindFence(_, _)
FindFence(t, i) ==
    IF i + 2 > Len(t) THEN 0
    ELSE IF FenceAt(t, i) THEN i
    ELSE FindFence(t, i + 1)

\* the last newline among t[lo..hi-1], 0 when there is none: the greedy \s*
\* gives back as little as lets [\n\r] match
RECURSIVE LastNL(_, _, _)
LastNL(t, lo, hi) ==
    IF hi <= lo THEN 0
    ELSE IF IsNL(t[hi - 1]) THEN hi - 1
    ELSE LastNL(t, lo, hi - 1)

NoMatch == [ok |-> FALSE, start |-> 0, end |-> 0, m1 |-> <<>>, hasLang |-> FALSE,
            m2 |-> <<>>, m3 |-> <<>>]

\* The match of the expression anchored at position i.  Every quantifier but
\* the body's is greedy over a class that excludes what must follow it, so
\* the backtracking search has one outcome, computed here left to right.
MatchAt(t, i) ==
    IF ~(i <= Len(t) /\ IsKeyword(t[i])) THEN NoMatch
    ELSE LET p1 == SkipSpace(t, i + 1)
             p2 == SkipPath(t, p1)
         IN  IF p2 = p1 \/ p2 > Len(t) \/ t[p2] # "]" THEN NoMatch
             ELSE LET p3 == SkipSpace(t, p2 + 1)
                  IN  IF ~FenceAt(t, p3) THEN NoMatch
                      ELSE LET p4 == p3 + 3
                               p5 == SkipWord(t, p4)
                               p6 == SkipSpace(t, p5)
                               nl == LastNL(t, p5, p6)
                               f  == IF nl = 0 THEN 0 ELSE FindFence(t, nl + 1)
                           IN  IF nl = 0 \/ f = 0 THEN NoMatch
                               ELSE [ok |-> TRUE, start |-> i, end |-> f + 2,
                                     m1 |-> SubSeq(t, p1, p2 - 1),
                                     hasLang |-> p5 > p4,
                                     m2 |-> SubSeq(t, p4, p5 - 1),
                                     m3 |-> SubSeq(t, nl + 1, f - 1)]

\* the expression without its g flag: the first match only
RECURSIVE MatchFirstOnly(_, _)
MatchFirstOnly(t, pos) ==
    IF pos > Len(t) THEN <<>>
    ELSE LET m == MatchAt(t, pos)
         IN  IF m.ok THEN <<m>> ELSE MatchFirstOnly(t, pos + 1)

\* text.matchAll(regex): all non-overlapping matches, left to right
RECURSIVE MatchAll(_, _)
MatchAll(t, pos) ==
    IF pos > Len(t) THEN <<>>
    ELSE LET m == MatchAt(t, pos)
         IN  IF m.ok THEN <<m>> \o MatchAll(t, m.end + 1)
             ELSE MatchAll(t, pos + 1)

\* the first position at which pat occurs in s, 0 when it does not
RECURSIVE IndexOf(_, _, _)
IndexOf(s, pat, i) ==
    IF i + Len(pat) - 1 > Len(s) THEN 0
    ELSE IF SubSeq(s, i, i + Len(pat) - 1) = pat THEN i
    ELSE IndexOf(s, pat, i + 1)

\* String.prototype.replace with a string pattern: the first occurrence only
\* (the replacement holds no "$", the path class excludes it)
ReplaceFirst(s, pat, rep) ==
    LET i == IndexOf(s, pat, 1)
    IN  IF i = 0 THEN s
        ELSE SubSeq(s, 1, i - 1) \o rep \o SubSeq(s, i + Len(pat), Len(s))

\* `\n\n> 📁 **File Updated: \`${m[1]}\`**\n`
Notice(name) == <<"\n", "\n", ">", " ", "File Updated: ", BT>> \o name \o <<BT, "**", "\n">>

DefaultLang == <<"text">>

\* the object pushed for match m
FileOf(m, id) ==
    [id |-> id,
     name |-> Trim(m.m1),
     language |-> Trim(IF m.hasLang THEN m.m2 ELSE DefaultLang),
     content |-> Trim(m.m3)]

\* cleanText.replace(m[0], notice), for each match in turn
RECURSIVE CleanAll(_, _, _, _)
CleanAll(t, clean, ms, k) ==
    IF k > Len(ms) THEN clean
    ELSE CleanAll(t, ReplaceFirst(clean, SubSeq(t, ms[k].start, ms[k].end), Notice(ms[k].m1)),
                  ms, k + 1)

\* extractFiles(text); ids are firstId, firstId + 1, ...
ExtractFiles(t, firstId) ==
    LET ms == MatchAll(t, 1)
    IN  [newFiles |-> [k \in 1..Len(ms) |-> FileOf(ms[k], firstId + k - 1)],
         cleanText |-> CleanAll(t, t, ms, 1)]

-----------------------------------------------------------------------------
(* Initial values of the component's state (useState initialisers) *)

\* let sha = null
NoSha == ""

NotParsed == [ran |-> FALSE, newFiles |-> <<>>, cleanText |-> <<>>]

NoPreview == [ran |-> FALSE, doc |-> [none |-> TRUE]]

\* the state after the first render and its effects, but for the working set
\* and the stored credentials
Mounted ==
    /\ activeTab = "chat"
    /\ messages = <<"model">>
    /\ inputText = <<>>
    /\ isGenerating = FALSE
    /\ activeFileId = 0
    /\ showSettings = FALSE
    /\ isPushing = FALSE
    /\ genCalls = 0
    /\ syncCalls = 0
    /\ syncPc = "idle"
    /\ syncLen = 0
    /\ syncIdx = 0
    /\ syncSha = NoSha
    /\ reqLog = <<>>
    /\ alerts = <<>>
    /\ sends = 0
    /\ syncs = 0
    /\ lastBatch = <<>>

-----------------------------------------------------------------------------
(* Inputs of extractFiles: texts rendered from a known structure *)

\* a file block as the model is instructed to write it: marker, fence, body, fence
Shapes ==
    { [kw |-> "[FILE:", sp |-> <<" ">>, ws1 |-> <<"\n">>, lang |-> <<"j", "s">>,
       ws2 |-> <<"\n">>, body |-> <<"x", "\n">>],
      [kw |-> "[file:", sp |-> <<>>, ws1 |-> <<>>, lang |-> <<>>,
       ws2 |-> <<"\n">>, body |-> <<"y">>],
      [kw |-> "[File:", sp |-> <<" ">>, ws1 |-> <<" ", "\n", "\n">>, lang |-> <<"j", "s">>,
       ws2 |-> <<" ", "\n">>, body |-> <<>>],
      [kw |-> "[FILE:", sp |-> <<" ">>, ws1 |-> <<"\r", "\n">>, lang |-> <<>>,
       ws2 |-> <<"\n", "\n", " ">>, body |-> <<BT, "x", BT, " ", "y", "\n">>] }

NamePool == { <<"a", ".js">>, <<"A", ".js">>, <<"s", "/", "i", "-", "0", ".html">> }

\* prose around the blocks
Prose == { <<>>, <<BT, "p", " ", "q", "\n">> }

\* texts without a file block: plain prose, a path outside the class, a marker
\* without a fence, a fence without a newline after it, an unterminated fence
NoMarkerTexts ==
    { <<>>,
      <<"p", " ", "q">>,
      <<"[FILE:", " ", "a", "+", "]", "\n", BT, BT, BT, "\n", "x", BT, BT, BT>>,
      <<"[FILE:", " ", "a", " ", "]", "\n", BT, BT, BT, "\n", "x", BT, BT, BT>>,
      <<"[FILE:", " ", "a", ".js", "]", "\n", "x">>,
      <<"[FILE:", " ", "a", ".js", "]", "\n", BT, BT, "\n", "x", BT, BT>>,
      <<"[FILE:", " ", "a", ".js", "]", BT, BT, BT, "j", "s", " ", "x", BT, BT, BT>>,
      <<"[FILE:", " ", "a", ".js", "]", "\n", BT, BT, BT, "j", "s", "\n", "x", BT, BT>>,
      <<BT, BT, BT, "j", "s", "\n", "x", BT, BT, BT>> }

Fence == <<BT, BT, BT>>

RenderBlock(b) ==
    <<b.kw>> \o b.sp \o b.name \o <<"]">> \o b.ws1 \o Fence \o b.lang \o b.ws2 \o b.body \o Fence

RECURSIVE RenderFrom(_, _)
RenderFrom(d, k) ==
    IF k > Len(d.blocks) THEN d.prose[k]
    ELSE d.prose[k] \o RenderBlock(d.blocks[k]) \o RenderFrom(d, k + 1)

Render(d) == RenderFrom(d, 1)

Injective(f) == \A i, j \in DOMAIN f : i # j => f[i] # f[j]

DocsOf(n) ==
    { [blocks |-> [k \in 1..n |-> [kw |-> sh[k].kw, sp |-> sh[k].sp, name |-> nm[k],
                                   ws1 |-> sh[k].ws1, lang |-> sh[k].lang,
                                   ws2 |-> sh[k].ws2, body |-> sh[k].body]],
       prose |-> pr] :
        sh \in [1..n -> Shapes],
        nm \in {f \in [1..n -> NamePool] : Injective(f)},
        pr \in [1..(n + 1) -> Prose] }

Docs ==
    UNION { DocsOf(n) : n \in 1..MaxBlocks }
        \cup { [blocks |-> <<>>, prose |-> <<t>>] : t \in NoMarkerTexts }

ExtractInit ==
    /\ Mounted
    /\ projectFiles = <<>>
    /\ nextId = 1
    /\ githubToken = <<>>
    /\ repoName = <<>>
    /\ doc \in Docs
    /\ text = Render(doc)
    /\ parsed = NotParsed
    /\ preview = NoPreview

\* const { newFiles, cleanText } = extractFiles(text)
RunExtract ==
    /\ ~parsed.ran
    /\ LET r == ExtractFiles(text, 1)
       IN  parsed' = [ran |-> TRUE, newFiles |-> r.newFiles, cleanText |-> r.cleanText]
    /\ UNCHANGED <<doc, text, preview>>
    /\ UNCHANGED appVars

ExtractNext == RunExtract

SpecExtract == ExtractInit /\ [][ExtractNext]_vars

\* the text with the k-th block's whole span replaced by the notice for its name
RECURSIVE CleanFrom(_, _)
CleanFrom(d, k) ==
    IF k > Len(d.blocks) THEN d.prose[k]
    ELSE d.prose[k] \o Notice(d.blocks[k].name) \o CleanFrom(d, k + 1)

\* C5: a text holding N well-formed file blocks with distinct names parses to
\* exactly N files, named in source order, and to a cleaned text in which each
\* block's whole span is replaced by its notice, in the same order; with no
\* block the cleaned text is the input and the file list is empty.
C5_ExtractInOrder ==
    parsed.ran =>
        /\ Len(parsed.newFiles) = Len(doc.blocks)
        /\ \A k \in 1..Len(doc.blocks) : parsed.newFiles[k].name = doc.blocks[k].name
        /\ parsed.cleanText = CleanFrom(doc, 1)
        /\ (doc.blocks = <<>> => parsed.cleanText = text /\ parsed.newFiles = <<>>)

C5_Witness ==
    /\ parsed.ran
    /\ Len(doc.blocks) >= 2
    /\ Len(parsed.newFiles) = Len(doc.blocks)
    /\ parsed.cleanText # text
    /\ doc.prose[2] # <<>>

-----------------------------------------------------------------------------
(* handleSendMessage *)

\* the comparison without toLowerCase
SameNameExact(a, b) == a = b

\* f.name.toLowerCase() === nf.name.toLowerCase()
SameName(a, b) == ToLower(a) = ToLower(b)

\* updated.findIndex(f => same name), 0 for -1
RECURSIVE FindIndex(_, _, _)
FindIndex(files, name, k) ==
    IF k > Len(files) THEN 0
    ELSE IF SameName(files[k].name, name) THEN k
    ELSE FindIndex(files, name, k + 1)

\* if (idx > -1) updated[idx].content = nf.content; else updated.push(nf);
UpsertOne(updated, nf) ==
    LET idx == FindIndex(updated, nf.name, 1)
    IN  IF idx > 0 THEN [updated EXCEPT ![idx].content = nf.content]
        ELSE Append(updated, nf)

\* the updater passed to setProjectFiles: newFiles.forEach over a copy of prev
RECURSIVE MergeFiles(_, _)
MergeFiles(prev, newFiles) ==
    IF newFiles = <<>> THEN prev
    ELSE MergeFiles(UpsertOne(prev, Head(newFiles)), Tail(newFiles))

\* the texts the model may answer with: prose alone, or one or two file blocks
GenBlocks ==
    { [kw |-> "[FILE:", sp |-> <<" ">>, name |-> k.name, ws1 |-> <<"\n">>, lang |-> k.lang,
       ws2 |-> <<"\n">>, body |-> k.body] :
        k \in { [name |-> <<"a", ".js">>, lang |-> <<"j", "s">>, body |-> <<"x", "\n">>],
                [name |-> <<"a", ".js">>, lang |-> <<>>, body |-> <<"y", "\n">>],
                [name |-> <<"A", ".js">>, lang |-> <<>>, body |-> <<"y", "\n">>],
                [name |-> <<"i", ".html">>, lang |-> <<"j", "s">>, body |-> <<"x", "\n">>] } }

ResponseTexts ==
    { Render([blocks |-> b, prose |-> [k \in 1..(Len(b) + 1) |-> <<"p", "\n">>]]) :
        b \in {<<>>} \cup { <<x>> : x \in GenBlocks } \cup { <<x, y>> : x, y \in GenBlocks } }
        \cup { <<>> }

InputTexts == { <<>>, <<" ">>, <<"p">> }

\* onChange of the textarea, rendered on the chat tab
EditInput(v) ==
    /\ activeTab = "chat"
    /\ inputText # v
    /\ inputText' = v
    /\ UNCHANGED <<activeTab, messages, isGenerating, projectFiles, activeFileId,
                   showSettings, githubToken, repoName, isPushing, genCalls, syncCalls, syncPc, syncLen,
                   syncIdx, syncSha, reqLog, alerts, nextId, sends, syncs, lastBatch,
                   doc, text, parsed, preview>>

\* the guard without its in-flight flag
SendReturnsOnEmpty == Trim(inputText) = <<>>

\* if (!inputText.trim() || isGenerating) return;
SendReturnsEarly == Trim(inputText) = <<>> \/ isGenerating

\* handleSendMessage up to its await: the guard, the user turn, the request
SendMessage ==
    /\ activeTab = "chat"
    /\ ~SendReturnsEarly
    /\ sends < MaxSends
    /\ sends' = sends + 1
    /\ messages' = Append(messages, "user")
    /\ inputText' = <<>>
    /\ isGenerating' = TRUE
    /\ genCalls' = genCalls + 1
    /\ UNCHANGED <<activeTab, projectFiles, activeFileId, showSettings, githubToken,
                   repoName, isPushing, syncCalls, syncPc, syncLen, syncIdx, syncSha, reqLog, alerts,
                   nextId, syncs, lastBatch, doc, text, parsed, preview>>

\* the id given to the active selection after a non-empty batch
ActiveAfter(newFiles) == newFiles[1].id

\* generateContent resolves: extractFiles, the merge, the selection, the model
\* turn, and the finally block
ModelResolves(txt) ==
    /\ genCalls > 0
    /\ LET r == ExtractFiles(txt, nextId)
       IN  /\ lastBatch' = r.newFiles
           /\ nextId' = nextId + Len(r.newFiles)
           /\ IF Len(r.newFiles) > 0
              THEN /\ projectFiles' = MergeFiles(projectFiles, r.newFiles)
                   /\ activeFileId' = ActiveAfter(r.newFiles)
              ELSE UNCHANGED <<projectFiles, activeFileId>>
    /\ messages' = Append(messages, "model")
    /\ isGenerating' = FALSE
    /\ genCalls' = genCalls - 1
    /\ UNCHANGED <<activeTab, inputText, showSettings, githubToken, repoName, isPushing,
                   syncCalls, syncPc, syncLen, syncIdx, syncSha, reqLog, alerts, sends, syncs,
                   doc, text, parsed, preview>>

\* the constructor or generateContent throws: the catch and the finally block
ModelRejects ==
    /\ genCalls > 0
    /\ messages' = Append(messages, "error")
    /\ lastBatch' = <<>>
    /\ isGenerating' = FALSE
    /\ genCalls' = genCalls - 1
    /\ UNCHANGED <<activeTab, inputText, projectFiles, activeFileId, showSettings,
                   githubToken, repoName, isPushing, syncCalls, syncPc, syncLen, syncIdx, syncSha,
                   reqLog, alerts, nextId, sends, syncs, doc, text, parsed, preview>>

-----------------------------------------------------------------------------
(* The other controls *)

\* the tab buttons
SwitchTab(tab) ==
    /\ activeTab # tab
    /\ activeTab' = tab
    /\ UNCHANGED <<messages, inputText, isGenerating, projectFiles, activeFileId,
                   showSettings, githubToken, repoName, isPushing, genCalls, syncCalls, syncPc, syncLen,
                   syncIdx, syncSha, reqLog, alerts, nextId, sends, syncs, lastBatch,
                   doc, text, parsed, preview>>

\* a file button of the sidebar, rendered on the preview tab
SelectFile(k) ==
    /\ activeTab = "preview"
    /\ k \in 1..Len(projectFiles)
    /\ activeFileId # projectFiles[k].id
    /\ activeFileId' = projectFiles[k].id
    /\ UNCHANGED <<activeTab, messages, inputText, isGenerating, projectFiles,
                   showSettings, githubToken, repoName, isPushing, genCalls, syncCalls, syncPc, syncLen,
                   syncIdx, syncSha, reqLog, alerts, nextId, sends, syncs, lastBatch,
                   doc, text, parsed, preview>>

\* the settings button of the header, and the two buttons that close the modal
SetShowSettings(v) ==
    /\ showSettings # v
    /\ showSettings' = v
    /\ UNCHANGED <<activeTab, messages, inputText, isGenerating, projectFiles, activeFileId,
                   githubToken, repoName, isPushing, genCalls, syncCalls, syncPc, syncLen,
                   syncIdx, syncSha, reqLog, alerts, nextId, sends, syncs, lastBatch,
                   doc, text, parsed, preview>>

Tokens == { <<>>, <<"t">> }

Repos == { <<>>, <<"r">> }

\* onChange of the token input of the modal
SetGithubToken(v) ==
    /\ showSettings
    /\ githubToken # v
    /\ githubToken' = v
    /\ UNCHANGED <<activeTab, messages, inputText, isGenerating, projectFiles, activeFileId,
                   showSettings, repoName, isPushing, genCalls, syncCalls, syncPc, syncLen,
                   syncIdx, syncSha, reqLog, alerts, nextId, sends, syncs, lastBatch,
                   doc, text, parsed, preview>>

\* onChange of the repository input of the modal
SetRepoName(v) ==
    /\ showSettings
    /\ repoName # v
    /\ repoName' = v
    /\ UNCHANGED <<activeTab, messages, inputText, isGenerating, projectFiles, activeFileId,
                   showSettings, githubToken, isPushing, genCalls, syncCalls, syncPc, syncLen,
                   syncIdx, syncSha, reqLog, alerts, nextId, sends, syncs, lastBatch,
                   doc, text, parsed, preview>>

-----------------------------------------------------------------------------
(* syncToGithub *)

\* a fetch() call as the remote end sees it, with what it answered
Request(method, file, sha) ==
    [method |-> method, file |-> file, sha |-> sha, status |-> "pending", body |-> "unread",
     data |-> NoSha]

\* alert(...)
SuccessAlert == [kind |-> "success", msg |-> "done", file |-> <<>>]

\* `❌ GitHub Error: ${e.message}`
ErrorAlert(msg, file) == [kind |-> "error", msg |-> msg, file |-> file]

\* the content hashes the remote end may report
Shas == { "s1", "s2" }

\* the file the for..of loop is at: the array closed over is a prefix of the
\* current one, which is only ever appended to, and holds the same objects
SyncFile == projectFiles[syncIdx]

\* the last request with the answer filled in
Answered(status, body, data) ==
    [reqLog EXCEPT ![Len(reqLog)].status = status, ![Len(reqLog)].body = body,
                   ![Len(reqLog)].data = data]

\* the write without the sha
ShaDropped(sha) == NoSha

\* sha: sha || undefined
ShaSent(sha) == sha

\* the flag reset only after the success alert, not in a finally block
SyncFinishOnSuccess(shown) ==
    /\ alerts' = Append(alerts, shown)
    /\ isPushing' = (shown.kind # "success" /\ isPushing)
    /\ syncCalls' = syncCalls - 1
    /\ syncPc' = "idle"

\* the catch and the finally block, or the success alert and the finally block
SyncFinish(shown) ==
    /\ alerts' = Append(alerts, shown)
    /\ isPushing' = FALSE
    /\ syncCalls' = syncCalls - 1
    /\ syncPc' = "idle"

\* disabled={isPushing}
SyncDisabled == isPushing

\* the test with && for ||
BothCredentialsMissing == githubToken = <<>> /\ repoName = <<>>

\* if (!githubToken || !repoName)
CredentialsMissing == githubToken = <<>> \/ repoName = <<>>

\* the click on "Sync to GitHub", up to the first await
SyncToGithub ==
    /\ activeTab = "preview"
    /\ ~SyncDisabled
    /\ syncs < MaxSyncs
    /\ syncs' = syncs + 1
    /\ IF CredentialsMissing
       THEN /\ showSettings' = TRUE
            /\ reqLog' = <<>>
            /\ alerts' = <<>>
            /\ UNCHANGED <<isPushing, syncCalls, syncPc, syncLen, syncIdx, syncSha>>
       ELSE IF Len(projectFiles) = 0
       THEN /\ reqLog' = <<>>
            /\ alerts' = <<ErrorAlert("nofiles", <<>>)>>
            /\ isPushing' = FALSE
            /\ syncPc' = "idle"
            /\ UNCHANGED <<showSettings, syncCalls, syncLen, syncIdx, syncSha>>
       ELSE /\ isPushing' = TRUE
            /\ syncLen' = Len(projectFiles)
            /\ syncIdx' = 1
            /\ syncSha' = NoSha
            /\ reqLog' = <<Request("GET", projectFiles[1].name, NoSha)>>
            /\ alerts' = <<>>
            /\ syncCalls' = syncCalls + 1
            /\ syncPc' = "awaitGet"
            /\ UNCHANGED showSettings
    /\ UNCHANGED <<activeTab, messages, inputText, isGenerating, projectFiles, activeFileId,
                   githubToken, repoName, genCalls, nextId, sends, lastBatch,
                   doc, text, parsed, preview>>

\* the lookup is answered: check.ok, not ok, or fetch rejects (the empty catch)
GetResponds(status) ==
    /\ syncPc = "awaitGet"
    /\ IF status = "ok"
       THEN /\ reqLog' = Answered("ok", "unread", NoSha)
            /\ syncPc' = "awaitGetJson"
       ELSE /\ reqLog' = Append(Answered(status, "unread", NoSha),
                                Request("PUT", SyncFile.name, ShaSent(syncSha)))
            /\ syncPc' = "awaitPut"
    /\ UNCHANGED <<activeTab, messages, inputText, isGenerating, projectFiles, activeFileId,
                   showSettings, githubToken, repoName, isPushing, genCalls, syncCalls, syncLen,
                   syncIdx, syncSha, alerts, nextId, sends, syncs, lastBatch,
                   doc, text, parsed, preview>>

\* check.json() settles: an object with a sha, one without (body "nosha"), or a
\* rejection (body "unreadable", the empty catch); then the write is issued
GetJsonSettles(body, data) ==
    /\ syncPc = "awaitGetJson"
    /\ syncSha' = data
    /\ reqLog' = Append(Answered("ok", body, data),
                        Request("PUT", SyncFile.name, ShaSent(data)))
    /\ syncPc' = "awaitPut"
    /\ UNCHANGED <<activeTab, messages, inputText, isGenerating, projectFiles, activeFileId,
                   showSettings, githubToken, repoName, isPushing, genCalls, syncCalls, syncLen,
                   syncIdx, alerts, nextId, sends, syncs, lastBatch,
                   doc, text, parsed, preview>>

\* the write is answered: push.ok (next file, or the success alert), not ok
\* (the body is read next), or fetch rejects (the outer catch)
PutResponds(status) ==
    /\ syncPc = "awaitPut"
    /\ reqLog' = IF status = "ok" /\ syncIdx < syncLen
                 THEN Append(Answered(status, "unread", NoSha),
                             Request("GET", projectFiles[syncIdx + 1].name, NoSha))
                 ELSE Answered(status, "unread", NoSha)
    /\ IF status = "ok"
       THEN IF syncIdx < syncLen
            THEN /\ syncIdx' = syncIdx + 1
                 /\ syncSha' = NoSha
                 /\ syncPc' = "awaitGet"
                 /\ UNCHANGED <<alerts, isPushing, syncCalls>>
            ELSE /\ SyncFinish(SuccessAlert)
                 /\ UNCHANGED <<syncIdx, syncSha>>
       ELSE IF status = "notok"
       THEN /\ syncPc' = "awaitPutJson"
            /\ UNCHANGED <<alerts, isPushing, syncCalls, syncIdx, syncSha>>
       ELSE /\ SyncFinish(ErrorAlert("exception", <<>>))
            /\ UNCHANGED <<syncIdx, syncSha>>
    /\ UNCHANGED <<activeTab, messages, inputText, isGenerating, projectFiles, activeFileId,
                   showSettings, githubToken, repoName, genCalls, syncLen,
                   nextId, sends, syncs, lastBatch, doc, text, parsed, preview>>

\* new Error(errData.message || `Gagal push ${file.name}`), or what push.json()
\* rejected with
PushError(body, file) ==
    CASE body = "msg" -> ErrorAlert("remote", <<>>)
      [] body = "nomsg" -> ErrorAlert("fallback", file)
      [] OTHER -> ErrorAlert("exception", <<>>)

\* push.json() settles: a message, none, or a rejection; the throw, the outer
\* catch and the finally block
PutJsonSettles(body) ==
    /\ syncPc = "awaitPutJson"
    /\ reqLog' = Answered("notok", body, NoSha)
    /\ SyncFinish(PushError(body, SyncFile.name))
    /\ UNCHANGED <<activeTab, messages, inputText, isGenerating, projectFiles, activeFileId,
                   showSettings, githubToken, repoName, genCalls, syncLen, syncIdx, syncSha,
                   nextId, sends, syncs, lastBatch, doc, text, parsed, preview>>

-----------------------------------------------------------------------------
(* The component *)

\* not part of the component: the variables of the studies of extractFiles and
\* previewDoc on their own
NoStudy ==
    /\ doc = [blocks |-> <<>>, prose |-> << <<>> >>]
    /\ text = <<>>
    /\ parsed = NotParsed
    /\ preview = NoPreview

\* useState(() => localStorage.getItem(...) || ''): what an earlier session left
Init ==
    /\ Mounted
    /\ projectFiles = <<>>
    /\ nextId = 1
    /\ githubToken \in Tokens
    /\ repoName \in Repos
    /\ NoStudy

\* two answers of the model: prose alone, and two file blocks
FewTexts ==
    { <<"p", "\n">>,
      Render([blocks |-> << [kw |-> "[FILE:", sp |-> <<" ">>, name |-> <<"a", ".js">>,
                             ws1 |-> <<"\n">>, lang |-> <<"j", "s">>, ws2 |-> <<"\n">>,
                             body |-> <<"x", "\n">>],
                            [kw |-> "[FILE:", sp |-> <<" ">>, name |-> <<"i", ".html">>,
                             ws1 |-> <<"\n">>, lang |-> <<>>, ws2 |-> <<"\n">>,
                             body |-> <<"y", "\n">>] >>,
              prose |-> << <<>>, <<"\n">>, <<>> >>]) }

\* Generation and synchronisation side by side: the two asynchronous handlers,
\* every outcome of every request, the tabs and the input field.
Next ==
    \/ \E v \in {<<>>, <<"p">>} : EditInput(v)
    \/ SendMessage
    \/ \E txt \in FewTexts : ModelResolves(txt)
    \/ ModelRejects
    \/ \E tab \in {"chat", "preview"} : SwitchTab(tab)
    \/ SyncToGithub
    \/ \E st \in {"ok", "notok", "rejected"} : GetResponds(st)
    \/ \E sha \in Shas : GetJsonSettles("sha", sha)
    \/ \E b \in {"nosha", "unreadable"} : GetJsonSettles(b, NoSha)
    \/ \E st \in {"ok", "notok", "rejected"} : PutResponds(st)
    \/ \E b \in {"msg", "nomsg", "unreadable"} : PutJsonSettles(b)

Spec == Init /\ [][Next]_vars

\* Generation in detail: every answer of ResponseTexts, the input field, the
\* tabs and the sidebar.
GenNext ==
    \/ \E v \in InputTexts : EditInput(v)
    \/ SendMessage
    \/ \E txt \in ResponseTexts : ModelResolves(txt)
    \/ ModelRejects
    \/ \E tab \in {"chat", "preview"} : SwitchTab(tab)
    \/ \E k \in 1..Len(projectFiles) : SelectFile(k)

\* a browser profile that stored no credentials
GenInit ==
    /\ Mounted
    /\ projectFiles = <<>>
    /\ nextId = 1
    /\ githubToken = <<>>
    /\ repoName = <<>>
    /\ NoStudy

SpecGen == GenInit /\ [][GenNext]_vars

\* the k-th name of a working set
NameOf(k) == [j \in 1..k |-> "a"] \o <<".js">>

\* a working set of n files, as n answers of one file block each leave it
WorkingSet(n) ==
    [k \in 1..n |-> [id |-> k, name |-> NameOf(k), language |-> <<"j", "s">>,
                     content |-> <<"x">>]]

SyncInit ==
    /\ Mounted
    /\ \E n \in 0..MaxFiles :
        /\ projectFiles = WorkingSet(n)
        /\ nextId = n + 1
    /\ githubToken \in Tokens
    /\ repoName \in Repos
    /\ NoStudy

\* Synchronisation in detail: the settings modal, the credentials, the tabs
\* and every outcome of every request.
SyncNext ==
    \/ \E tab \in {"chat", "preview"} : SwitchTab(tab)
    \/ \E v \in BOOLEAN : SetShowSettings(v)
    \/ \E v \in Tokens : SetGithubToken(v)
    \/ \E v \in Repos : SetRepoName(v)
    \/ SyncToGithub
    \/ \E st \in {"ok", "notok", "rejected"} : GetResponds(st)
    \/ \E sha \in Shas : GetJsonSettles("sha", sha)
    \/ \E b \in {"nosha", "unreadable"} : GetJsonSettles(b, NoSha)
    \/ \E st \in {"ok", "notok", "rejected"} : PutResponds(st)
    \/ \E b \in {"msg", "nomsg", "unreadable"} : PutJsonSettles(b)

SpecSync == SyncInit /\ [][SyncNext]_vars

-----------------------------------------------------------------------------
(* previewDoc *)

\* name.toLowerCase().endsWith(ext)
HasExt(name, ext) == name # <<>> /\ LowerTok(name[Len(name)]) = ext

\* projectFiles.find(f => ...), 0 for undefined
RECURSIVE FindExt(_, _, _)
FindExt(files, ext, k) ==
    IF k > Len(files) THEN 0
    ELSE IF HasExt(files[k].name, ext) THEN k
    ELSE FindExt(files, ext, k + 1)

\* projectFiles.filter(f => ...).map(f => f.content), in order
RECURSIVE ContentsOf(_, _, _)
ContentsOf(files, ext, k) ==
    IF k > Len(files) THEN <<>>
    ELSE IF HasExt(files[k].name, ext) THEN <<files[k].content>> \o ContentsOf(files, ext, k + 1)
    ELSE ContentsOf(files, ext, k + 1)

\* the first > at or after g, 0 when there is none: [^>]*>
RECURSIVE FindGt(_, _)
FindGt(c, g) ==
    IF g > Len(c) THEN 0
    ELSE IF c[g] = ">" THEN g
    ELSE FindGt(c, g + 1)

\* <\/body> at j, under the i flag
CloseAt(c, j) == j + 1 <= Len(c) /\ LowerTok(c[j]) = "</body" /\ c[j + 1] = ">"

\* the last closing tag at or after lo, searched from j down, 0 when there is
\* none: the greedy ([\s\S]*) gives back as little as lets <\/body> match
RECURSIVE LastClose(_, _, _)
LastClose(c, lo, j) ==
    IF j < lo THEN 0
    ELSE IF CloseAt(c, j) THEN j
    ELSE LastClose(c, lo, j - 1)

\* the first closing tag at or after j, 0 when there is none
RECURSIVE FirstClose(_, _)
FirstClose(c, j) ==
    IF j > Len(c) THEN 0
    ELSE IF CloseAt(c, j) THEN j
    ELSE FirstClose(c, j + 1)

\* the capture made lazy, ([\s\S]*?): it ends at the first closing tag
ClosingTagLazy(c, g) == FirstClose(c, g + 1)

\* the tag that ends the capture, given that the opening tag ends at g
ClosingTag(c, g) == LastClose(c, g + 1, Len(c))

\* htmlFile.content.match(/<body[^>]*>([\s\S]*)<\/body>/i): the leftmost match
RECURSIVE BodyMatch(_, _)
BodyMatch(c, i) ==
    IF i > Len(c) THEN [ok |-> FALSE, m1 |-> <<>>]
    ELSE IF LowerTok(c[i]) # "<body" THEN BodyMatch(c, i + 1)
    ELSE LET g == FindGt(c, i + 1)
             j == IF g = 0 THEN 0 ELSE ClosingTag(c, g)
         IN  IF g = 0 \/ j = 0 THEN BodyMatch(c, i + 1)
             ELSE [ok |-> TRUE, m1 |-> SubSeq(c, g + 1, j - 1)]

\* bodyMatch ? bodyMatch[1] : htmlFile.content
BodyContent(c) == LET m == BodyMatch(c, 1) IN IF m.ok THEN m.m1 ELSE c

\* the memoised document: null, or the template with its three holes filled
PreviewDoc(files) ==
    LET h == FindExt(files, ".html", 1)
    IN  IF h = 0 THEN [none |-> TRUE]
        ELSE [none |-> FALSE,
              css |-> ContentsOf(files, ".css", 1),
              body |-> BodyContent(files[h].content),
              js |-> ContentsOf(files, ".js", 1)]

\* the tokens of an HTML file's content
HtmlTokens == { "<BODY", ">", "</body", "x" }

RECURSIVE SeqsUpTo(_, _)
SeqsUpTo(S, n) ==
    IF n = 0 THEN { <<>> }
    ELSE LET shorter == SeqsUpTo(S, n - 1)
         IN  shorter \cup { Append(q, x) : q \in shorter, x \in S }

HtmlContents == SeqsUpTo(HtmlTokens, MaxHtmlLen)

File(id, name, lang, content) ==
    [id |-> id, name |-> name, language |-> lang, content |-> content]

\* working sets around an HTML file of content c
PreviewSets(c) ==
    { << File(1, <<"i", ".html">>, <<"html">>, c) >>,
      << File(1, <<"s", ".css">>, <<"css">>, <<"x">>),
         File(2, <<"I", ".HTML">>, <<"html">>, c),
         File(3, <<"a", ".js">>, <<"j", "s">>, <<"x">>),
         File(4, <<"j", ".html">>, <<"html">>, <<"<body", ">", "x", "</BODY", ">">>) >>,
      << File(1, <<"s", ".css">>, <<"css">>, c) >> }

PreviewInit ==
    /\ Mounted
    /\ \E c \in HtmlContents : \E w \in PreviewSets(c) :
        /\ projectFiles = w
        /\ nextId = Len(w) + 1
    /\ githubToken = <<>>
    /\ repoName = <<>>
    /\ doc = [blocks |-> <<>>, prose |-> << <<>> >>]
    /\ text = <<>>
    /\ parsed = NotParsed
    /\ preview = NoPreview

\* useMemo(() => ..., [projectFiles])
ComputePreview ==
    /\ ~preview.ran
    /\ preview' = [ran |-> TRUE, doc |-> PreviewDoc(projectFiles)]
    /\ UNCHANGED <<doc, text, parsed>>
    /\ UNCHANGED appVars

PreviewNext == ComputePreview

SpecPreview == PreviewInit /\ [][PreviewNext]_vars

-----------------------------------------------------------------------------
(* Claims about the merge, checked under SpecGen *)

\* equal names under case-insensitive comparison
EqualNoCase(a, b) == ToLower(a) = ToLower(b)

\* a response with files has just been merged
MergeStep == genCalls' = genCalls - 1 /\ lastBatch' # <<>>

\* the batch file at j is the last of the batch with its name
LastOfName(batch, j) ==
    \A j2 \in (j + 1)..Len(batch) : ~EqualNoCase(batch[j2].name, batch[j].name)

\* the batch file at j is the first of the batch with its name
FirstOfName(batch, j) ==
    \A j2 \in 1..(j - 1) : ~EqualNoCase(batch[j2].name, batch[j].name)

\* the old entries keep their id, name and index, and the batch files that
\* match none of them are appended after them, in batch order
MergeKeepsAndAppends(old, batch, new) ==
    /\ Len(new) >= Len(old)
    /\ \A k \in 1..Len(old) : new[k].id = old[k].id /\ new[k].name = old[k].name
    /\ LET added == { j \in 1..Len(batch) :
                        /\ FirstOfName(batch, j)
                        /\ \A k \in 1..Len(old) : ~EqualNoCase(old[k].name, batch[j].name) }
       IN  /\ Len(new) = Len(old) + Cardinality(added)
           /\ \A j \in added :
                LET k == Len(old) + Cardinality({ j2 \in added : j2 <= j })
                IN  new[k].id = batch[j].id /\ new[k].name = batch[j].name

\* an old entry matched by the batch takes the content of the last batch file
\* of its name
MergeOverwritesContent(old, batch, new) ==
    \A k \in 1..Len(old) : \A j \in 1..Len(batch) :
        EqualNoCase(old[k].name, batch[j].name) /\ LastOfName(batch, j)
            => new[k].content = batch[j].content

\* an old entry matched by the batch takes the language of the last batch file
\* of its name
MergeOverwritesLanguage(old, batch, new) ==
    \A k \in 1..Len(old) : \A j \in 1..Len(batch) :
        EqualNoCase(old[k].name, batch[j].name) /\ LastOfName(batch, j)
            => new[k].language = batch[j].language

\* C1: when an extracted file's name equals, case-insensitively, the name of an
\* entry of the working set, that entry's content and language are both
\* overwritten with the extracted file's, its id and index unchanged; an
\* extracted file that matches no entry is appended at the end.
C1_MergeOverwritesContentAndLanguage ==
    [][MergeStep =>
        /\ MergeKeepsAndAppends(projectFiles, lastBatch', projectFiles')
        /\ MergeOverwritesContent(projectFiles, lastBatch', projectFiles')
        /\ MergeOverwritesLanguage(projectFiles, lastBatch', projectFiles')]_vars

\* what the merge does do: C1 without the language
MergeKeepsAppendsOverwritesContent ==
    [][MergeStep =>
        /\ MergeKeepsAndAppends(projectFiles, lastBatch', projectFiles')
        /\ MergeOverwritesContent(projectFiles, lastBatch', projectFiles')]_vars

UniqueNames ==
    \A j, k \in 1..Len(projectFiles) :
        j # k => ~EqualNoCase(projectFiles[j].name, projectFiles[k].name)

\* C4: no two entries of the working set have names equal under
\* case-insensitive comparison, whatever the responses were, and the working
\* set never gets shorter.
C4_UniqueNamesNoLoss ==
    /\ []UniqueNames
    /\ [][Len(projectFiles') >= Len(projectFiles)]_vars

\* a response naming one file twice, in two letter cases, has been merged into
\* one entry
C4_Witness ==
    /\ Len(lastBatch) = 2
    /\ lastBatch[1].name # lastBatch[2].name
    /\ EqualNoCase(lastBatch[1].name, lastBatch[2].name)
    /\ Len(projectFiles) = 1

\* C10: the active selection is null or the id of an entry of the working set,
\* also after a response whose first file overwrote an existing entry.
C10_ActiveFilePresent ==
    activeFileId = 0 \/ \E k \in 1..Len(projectFiles) : projectFiles[k].id = activeFileId

-----------------------------------------------------------------------------
(* Claims about the synchronisation, checked under SpecSync *)

\* the requests of one method for one file
Requests(method, file) ==
    { p \in 1..Len(reqLog) : reqLog[p].method = method /\ reqLog[p].file = file }

\* the write at p was answered without success
FailedWrite(p) == reqLog[p].method = "PUT" /\ reqLog[p].status = "notok"

\* the position in the working set of the file the request at p is for
FileIndex(p) == CHOOSE k \in 1..Len(projectFiles) : projectFiles[k].name = reqLog[p].file

\* the requests up to the failed write of file k: one lookup and one write for
\* each file up to k, none for a later file, and no success alert
FailFast(p) ==
    LET k == FileIndex(p)
    IN  /\ \A j \in 1..k :
            /\ Cardinality(Requests("GET", projectFiles[j].name)) = 1
            /\ Cardinality(Requests("PUT", projectFiles[j].name)) = 1
        /\ \A j \in (k + 1)..Len(projectFiles) :
            /\ Requests("GET", projectFiles[j].name) = {}
            /\ Requests("PUT", projectFiles[j].name) = {}
        /\ p = Len(reqLog)
        /\ \A a \in 1..Len(alerts) : alerts[a].kind # "success"

\* C2: when the write of file fk is the first not to indicate success, every
\* file before fk got one lookup and one write, fk one write, no later file
\* any request, no success alert is shown, and the one error shown names fk,
\* with or without a message from the remote end.
C2_FailFastNamesFile ==
    \A p \in 1..Len(reqLog) : FailedWrite(p) =>
        /\ FailFast(p)
        /\ syncPc = "idle" =>
            /\ Len(alerts) = 1
            /\ alerts[1].kind = "error"
            /\ alerts[1].file = reqLog[p].file

\* what the synchronisation does do: C2 with the error as the code words it
FailFastOneError ==
    \A p \in 1..Len(reqLog) : FailedWrite(p) =>
        /\ FailFast(p)
        /\ syncPc = "idle" =>
            /\ Len(alerts) = 1
            /\ alerts[1].kind = "error"
            /\ alerts[1].msg = CASE reqLog[p].body = "msg" -> "remote"
                                 [] reqLog[p].body = "nomsg" -> "fallback"
                                 [] OTHER -> "exception"
            /\ alerts[1].file = IF reqLog[p].body = "nomsg" THEN reqLog[p].file ELSE <<>>

\* C3: with an empty token or repository name a call of syncToGithub issues no
\* request and opens the settings; with both set and an empty working set it
\* issues no request and shows the nothing-to-send error, not the success alert.
C3_Preconditions ==
    [][syncs' = syncs + 1 =>
        /\ (githubToken = <<>> \/ repoName = <<>>) =>
            /\ reqLog' = <<>>
            /\ syncPc' = "idle"
            /\ syncCalls' = syncCalls
            /\ showSettings'
            /\ alerts' = <<>>
        /\ (githubToken # <<>> /\ repoName # <<>> /\ projectFiles = <<>>) =>
            /\ reqLog' = <<>>
            /\ syncPc' = "idle"
            /\ syncCalls' = syncCalls
            /\ ~isPushing'
            /\ alerts' = <<ErrorAlert("nofiles", <<>>)>>]_vars

\* a first call without credentials opened the settings, a second one with
\* them and no file showed the error
C3_Witness ==
    /\ syncs = 2
    /\ showSettings
    /\ githubToken # <<>>
    /\ repoName # <<>>
    /\ reqLog = <<>>
    /\ alerts = <<ErrorAlert("nofiles", <<>>)>>

\* the lookup at p is over: answered without success, rejected, or answered
\* and its body read or found unreadable
LookupOver(p) ==
    /\ reqLog[p].method = "GET"
    /\ \/ reqLog[p].status \in {"notok", "rejected"}
       \/ reqLog[p].status = "ok" /\ reqLog[p].body # "unread"

\* C9: a file's write is issued after its lookup is over; it carries a sha
\* exactly when the lookup answered with an object's sha, and then that sha; a
\* lookup not found, rejected or unreadable is never shown as an error and
\* never ends the synchronisation: the write follows, without a sha.
C9_LookupThenWrite ==
    /\ \A p \in 1..Len(reqLog) : reqLog[p].method = "PUT" =>
        /\ p > 1
        /\ LookupOver(p - 1)
        /\ reqLog[p - 1].file = reqLog[p].file
        /\ reqLog[p].sha = IF reqLog[p - 1].status = "ok" /\ reqLog[p - 1].body = "sha"
                           THEN reqLog[p - 1].data
                           ELSE NoSha
    /\ \A p \in 1..Len(reqLog) : LookupOver(p) =>
        /\ p < Len(reqLog)
        /\ reqLog[p + 1].method = "PUT"
        /\ reqLog[p + 1].file = reqLog[p].file
    /\ \A a \in 1..Len(alerts) : alerts[a].kind = "error" /\ alerts[a].msg # "nofiles" =>
        /\ reqLog # <<>>
        /\ reqLog[Len(reqLog)].method = "PUT"
        /\ reqLog[Len(reqLog)].status \in {"notok", "rejected"}

\* a rejected lookup, a lookup not found and a lookup that found a sha, each
\* followed by its write
C9_Witness ==
    /\ Len(reqLog) = 6
    /\ reqLog[1].status = "rejected"
    /\ reqLog[3].status = "notok"
    /\ reqLog[5].body = "sha"
    /\ reqLog[6].sha = "s2"
    /\ reqLog[6].status = "ok"
    /\ alerts = <<SuccessAlert>>

-----------------------------------------------------------------------------
(* Claims about the two handlers together, checked under Spec and SpecLive *)

\* C7 as amended: at most one generation and at most one synchronisation is
\* in flight, so at most two requests are outstanding, one of each kind.
C7_OnePerKind == genCalls <= 1 /\ syncCalls <= 1

\* C7: at most one operation, a generation or a synchronisation, is in
\* flight, and so at most one request is outstanding.
C7_OneOperation == genCalls + syncCalls <= 1

\* a generation and a synchronisation in flight, text typed in the input field
C7_Witness ==
    /\ genCalls = 1
    /\ syncCalls = 1
    /\ activeTab = "chat"
    /\ Trim(inputText) # <<>>
    /\ isGenerating
    /\ isPushing

\* every awaited call settles: the model's answer, the lookup and its body,
\* the write and its body
ModelSettles == (\E txt \in FewTexts : ModelResolves(txt)) \/ ModelRejects

GetSettles == \E st \in {"ok", "notok", "rejected"} : GetResponds(st)

GetJsonSettlesAny ==
    \/ \E sha \in Shas : GetJsonSettles("sha", sha)
    \/ \E b \in {"nosha", "unreadable"} : GetJsonSettles(b, NoSha)

PutSettles == \E st \in {"ok", "notok", "rejected"} : PutResponds(st)

PutJsonSettlesAny == \E b \in {"msg", "nomsg", "unreadable"} : PutJsonSettles(b)

SpecLive ==
    /\ Init
    /\ [][Next]_vars
    /\ WF_vars(ModelSettles)
    /\ WF_vars(GetSettles)
    /\ WF_vars(GetJsonSettlesAny)
    /\ WF_vars(PutSettles)
    /\ WF_vars(PutJsonSettlesAny)

\* C6: if every awaited call settles, a started generation resets isGenerating
\* and a started synchronisation resets isPushing, whatever the outcome.
C6_FlagsReset ==
    /\ isGenerating ~> ~isGenerating
    /\ isPushing ~> ~isPushing

\* a generation in flight while a failed write's body is being read
C6_Witness ==
    /\ isGenerating
    /\ isPushing
    /\ syncPc = "awaitPutJson"

-----------------------------------------------------------------------------
(* Claims about previewDoc, checked under SpecPreview *)

SetMin(S) == CHOOSE x \in S : \A y \in S : x <= y

SetMax(S) == CHOOSE x \in S : \A y \in S : x >= y

\* the content of the first file with the HTML extension
HtmlContent ==
    LET hs == { k \in 1..Len(projectFiles) :
                  LowerTok(projectFiles[k].name[Len(projectFiles[k].name)]) = ".html" }
    IN  projectFiles[SetMin(hs)].content

\* the closing body tags of c
Closings(c) ==
    { j \in 1..(Len(c) - 1) : c[j] \in {"</body", "</BODY"} /\ c[j + 1] = ">" }

\* where the opening body tag at i ends
TagEnd(c, i) == SetMin({ g \in (i + 1)..Len(c) : c[g] = ">" })

\* the opening body tags of c that a closing one follows
Openings(c) ==
    { i \in 1..Len(c) :
        /\ c[i] \in {"<body", "<BODY"}
        /\ \E g \in (i + 1)..Len(c) : c[g] = ">"
        /\ \E j \in Closings(c) : j > TagEnd(c, i) }

\* C8 as amended: the body of the document is the text between the first
\* opening body tag and the last closing body tag of the HTML file, and the
\* whole content when no opening tag is followed by a closing one.
C8_BodyToLastClosingTag ==
    preview.ran /\ ~preview.doc.none =>
        LET c == HtmlContent
        IN  IF Openings(c) = {} THEN preview.doc.body = c
            ELSE preview.doc.body =
                    SubSeq(c, TagEnd(c, SetMin(Openings(c))) + 1, SetMax(Closings(c)) - 1)

\* C8: the body of the document is the text between the first opening body
\* tag and the first closing body tag of the HTML file, and the whole content
\* when it has no body tags.
C8_BodyToFirstClosingTag ==
    preview.ran /\ ~preview.doc.none =>
        LET c == HtmlContent
        IN  /\ Openings(c) # {} =>
                LET g == TagEnd(c, SetMin(Openings(c)))
                IN  preview.doc.body =
                        SubSeq(c, g + 1, SetMin({ j \in Closings(c) : j > g }) - 1)
            /\ (\A k \in 1..Len(c) : c[k] \notin {"<body", "<BODY", "</body", "</BODY"})
                => preview.doc.body = c

\* an HTML file with two closing body tags after its opening one
C8_Witness ==
    /\ preview.ran
    /\ ~preview.doc.none
    /\ Len(projectFiles) > 1
    /\ Openings(HtmlContent) # {}
    /\ Cardinality({ j \in Closings(HtmlContent) :
                       j > TagEnd(HtmlContent, SetMin(Openings(HtmlContent))) }) = 2
    /\ preview.doc.body # <<>>

=============================================================================
